---- MODULE Spec2Model ----
(***************************************************************************)
(* Game cart backend (src/game_cart/app.py): the request handlers of the   *)
(* Flask application, run by concurrent workers against one relational     *)
(* store with a users table and a games table.                             *)
(*                                                                         *)
(* The handlers are translated from app.py.  The store classes they call   *)
(* (User, Games) and the catalog client (get_game_info) are imported by    *)
(* app.py from modules that are not part of src/; they are modelled from   *)
(* sections 4.1-4.4 and 5 of the specification.                            *)
(*                                                                         *)
(* Prices are kept in integer cents: the sums are exact, the rounding of    *)
(* binary floating point is not modelled.  The store itself is taken to be  *)
(* available: a failing transaction of the backend is not modelled.         *)
(*                                                                         *)
(* A handler that calls the store is split at the store call: one step     *)
(* reads and validates the request, the next performs the store call (one  *)
(* transaction) and decides the response.  Steps of different workers      *)
(* interleave freely.  A worker keeps its last response until it takes the *)
(* next request.                                                           *)
(***************************************************************************)
EXTENDS Integers, Sequences, FiniteSets, TLC

\* ------------------------------------------------------------------ bounds
NumSalts == 2
NumPrices == 2

Workers == {"w1", "w2"}

\* ------------------------------------------------------------- input values
Missing == "<missing>"
Usernames == {"alice", "bob"}
Passwords == {"pw1", "pw2"}
UsernameInputs == Usernames \cup {"", Missing}
PasswordInputs == Passwords \cup {"", Missing}
Salts == 1 .. NumSalts

\* Python truthiness of a request field: None (absent) and "" are falsy.
Falsy(x) == x = Missing \/ x = ""

VARIABLES
    users,      \* users table: set of rows [username, salt, hashed_password]
    games,      \* games table: sequence of rows [id, name, price], insertion order
    req,        \* per worker: the request in hand, its position and its response
    lastSet,    \* history: per username, the password of the latest 201 response
    everSet,    \* history: per username, every password a 201 response has set
    deletedIds  \* history: ids some delete-game has answered 200 for

vars == <<users, games, req, lastSet, everSet, deletedIds>>

Idle == [op |-> "none", pc |-> "idle", status |-> 0]
Free(w) == req[w].pc \in {"idle", "done"}

\* --------------------------------------------------------- password module
\* Salted SHA-256, taken as collision free: the digest determines its inputs.
hash_password(password, salt) == <<"sha256", password, salt>>

verify_password(password, salt, expected_hash) ==
    hash_password(password, salt) = expected_hash

\* ----------------------------------------------------------- account store
\* The row of username; the unique index on username leaves at most one.
has_user(tbl, username) == \E row \in tbl : row.username = username

find_user(tbl, username) == CHOOSE row \in tbl : row.username = username

new_credential(row, password, salt) ==
    [row EXCEPT !.salt = salt, !.hashed_password = hash_password(password, salt)]

User_create_user(tbl, username, password, salt) ==
    IF has_user(tbl, username)
    THEN [exc |-> "ValueError", tbl |-> tbl]
    ELSE [exc |-> "none",
          tbl |-> tbl \cup {new_credential(
                      [username |-> username, salt |-> 0, hashed_password |-> <<>>],
                      password, salt)}]

User_check_password(tbl, username, password) ==
    IF ~has_user(tbl, username)
    THEN [exc |-> "ValueError", ok |-> FALSE]
    ELSE LET row == find_user(tbl, username) IN
         [exc |-> "none",
          ok |-> verify_password(password, row.salt, row.hashed_password)]

User_update_password(tbl, username, new_password, salt) ==
    IF ~has_user(tbl, username)
    THEN [exc |-> "ValueError", tbl |-> tbl]
    ELSE LET row == find_user(tbl, username) IN
         [exc |-> "none",
          tbl |-> (tbl \ {row}) \cup {new_credential(row, new_password, salt)}]

\* ------------------------------------------------- handlers: user management
create_user_invalid(username, password) == Falsy(username) \/ Falsy(password)

\* Variant: the except branch is lost and every call is answered 201.
create_user_response_always_201(exc) == 201

create_user_response(exc) == IF exc = "none" THEN 201 ELSE 500

login_invalid(username, password) == username = Missing \/ password = Missing

\* Variants: the test of check_password is inverted, or is dropped.
login_response_inverted(exc, ok) ==
    IF exc # "none" THEN 500 ELSE IF ok THEN 401 ELSE 200

login_response_always_200(exc, ok) ==
    IF exc # "none" THEN 500 ELSE 200

\* The except branch (line 110) passes a set to jsonify, which raises inside
\* the handler; the framework answers that with 500 as well.
login_response(exc, ok) ==
    IF exc # "none" THEN 500 ELSE IF ~ok THEN 401 ELSE 200

update_password_invalid(username, new_password) ==
    Falsy(username) \/ Falsy(new_password)

\* Variant: no `except ValueError` clause.
update_password_response_no_401(exc) == IF exc = "none" THEN 201 ELSE 500

update_password_response(exc) ==
    IF exc = "none" THEN 201 ELSE IF exc = "ValueError" THEN 401 ELSE 500

\* What a login request for (username, password) is answered on table tbl.
LoginOutcome(tbl, username, password) ==
    LET res == User_check_password(tbl, username, password)
    IN login_response(res.exc, res.ok)

Exists(username) == username \in Usernames /\ lastSet[username] # Missing

\* The response to a request that fails validation; its fields are dropped.
Rejected(op) == [op |-> op, pc |-> "done", status |-> 400, note |-> {"rejected"}]

\* The response to a request that reached the store: the status, the username it
\* was about and, as history, what was the case when the store call was made.
Response(op, username, status, note) ==
    [op |-> op, pc |-> "done", status |-> status, username |-> username, note |-> note]

Note(tag, cond) == IF cond THEN {tag} ELSE {}

create_user_recv(w) ==
    /\ Free(w)
    /\ \E username \in UsernameInputs, password \in PasswordInputs :
         req' = [req EXCEPT ![w] =
                   IF create_user_invalid(username, password)
                   THEN Rejected("create_user")
                   ELSE [op |-> "create_user", username |-> username,
                         password |-> password, pc |-> "store", status |-> 0,
                         existedAtRecv |-> Exists(username)]]
    /\ UNCHANGED <<users, games, lastSet, everSet, deletedIds>>

create_user_call(w) ==
    /\ req[w].op = "create_user" /\ req[w].pc = "store"
    /\ \E salt \in Salts :
         LET r == req[w]
             res == User_create_user(users, r.username, r.password, salt)
             status == create_user_response(res.exc)
         IN /\ users' = res.tbl
            /\ req' = [req EXCEPT ![w] =
                        Response("create_user", r.username, status,
                            Note("raced", Exists(r.username) /\ ~r.existedAtRecv)
                            \cup Note("otherPassword", Exists(r.username)
                                          /\ lastSet[r.username] # r.password))]
            /\ IF status = 201
               THEN /\ lastSet' = [lastSet EXCEPT ![r.username] = r.password]
                    /\ everSet' = [everSet EXCEPT ![r.username] = @ \cup {r.password}]
               ELSE UNCHANGED <<lastSet, everSet>>
    /\ UNCHANGED <<games, deletedIds>>

login_recv(w) ==
    /\ Free(w)
    /\ \E username \in UsernameInputs, password \in PasswordInputs :
         req' = [req EXCEPT ![w] =
                   IF login_invalid(username, password)
                   THEN Rejected("login")
                   ELSE [op |-> "login", username |-> username,
                         password |-> password, pc |-> "check", status |-> 0,
                         validAtRecv |-> Exists(username) /\ lastSet[username] = password]]
    /\ UNCHANGED <<users, games, lastSet, everSet, deletedIds>>

login_call(w) ==
    /\ req[w].op = "login" /\ req[w].pc = "check"
    /\ LET r == req[w]
           res == User_check_password(users, r.username, r.password)
       IN req' = [req EXCEPT ![w] =
                    Response("login", r.username, login_response(res.exc, res.ok),
                        Note("validAtRecv", r.validAtRecv)
                        \cup Note("stale", /\ Exists(r.username)
                                           /\ r.password \in everSet[r.username]
                                           /\ r.password # lastSet[r.username])
                        \cup Note("known", Exists(r.username)))]
    /\ UNCHANGED <<users, games, lastSet, everSet, deletedIds>>

update_password_recv(w) ==
    /\ Free(w)
    /\ \E username \in UsernameInputs, new_password \in PasswordInputs :
         req' = [req EXCEPT ![w] =
                   IF update_password_invalid(username, new_password)
                   THEN Rejected("update_password")
                   ELSE [op |-> "update_password", username |-> username,
                         password |-> new_password, pc |-> "store", status |-> 0]]
    /\ UNCHANGED <<users, games, lastSet, everSet, deletedIds>>

update_password_call(w) ==
    /\ req[w].op = "update_password" /\ req[w].pc = "store"
    /\ \E salt \in Salts :
         LET r == req[w]
             res == User_update_password(users, r.username, r.password, salt)
             status == update_password_response(res.exc)
         IN /\ users' = res.tbl
            /\ req' = [req EXCEPT ![w] =
                        Response("update_password", r.username, status,
                            Note("known", Exists(r.username)))]
            /\ IF status = 201
               THEN /\ lastSet' = [lastSet EXCEPT ![r.username] = r.password]
                    /\ everSet' = [everSet EXCEPT ![r.username] = @ \cup {r.password}]
               ELSE UNCHANGED <<lastSet, everSet>>
    /\ UNCHANGED <<games, deletedIds>>

\* ------------------------------------------------------------ catalog client
\* The ids the catalog knows, with the name and the base price (in cents) it
\* reports; the reported price moves over time within CatalogPrices(id).
KnownIds == {10, 20}
UnknownIds == {30}
GameCatalog ==
    [id \in KnownIds |->
        IF id = 10 THEN [name |-> "Chess", price |-> 999]
                   ELSE [name |-> "Go", price |-> 500]]

CatalogPrices(id) == {GameCatalog[id].price + 100 * k : k \in 0 .. (NumPrices - 1)}

EmptyInfo == [found |-> FALSE, id |-> 0, name |-> "", price |-> 0]

\* The replies get_game_info(id) can give: a failure of the call (timeout,
\* malformed response) at any time, else the record of a known id or {}.
get_game_info(id) ==
    {[exc |-> "Exception", info |-> EmptyInfo]}
    \cup (IF id \in KnownIds
          THEN {[exc |-> "none",
                 info |-> [found |-> TRUE, id |-> id, name |-> GameCatalog[id].name,
                           price |-> price]] : price \in CatalogPrices(id)}
          ELSE {[exc |-> "none", info |-> EmptyInfo]})

\* --------------------------------------------------------------- cart store
has_game(tbl, id) == \E i \in 1 .. Len(tbl) : tbl[i].id = id

NotFoundMsg(id) == <<"Game with id", id, "not found">>

\* The class of the error a duplicate id raises is not fixed by the
\* specification: duplicate_exc ranges over both kinds the handler tells apart.
DuplicateKinds == {"ValueError", "Exception"}

Games_create_game(tbl, id, name, price, duplicate_exc) ==
    IF id <= 0 \/ price < 0
    THEN [exc |-> "ValueError", msg |-> <<"invalid game">>, tbl |-> tbl]
    ELSE IF has_game(tbl, id)
    THEN [exc |-> duplicate_exc, msg |-> <<"duplicate game", id>>, tbl |-> tbl]
    ELSE [exc |-> "none", msg |-> <<>>,
          tbl |-> Append(tbl, [id |-> id, name |-> name, price |-> price])]

Games_delete_game(tbl, id) ==
    IF ~has_game(tbl, id)
    THEN [exc |-> "ValueError", msg |-> NotFoundMsg(id), tbl |-> tbl]
    ELSE [exc |-> "none", msg |-> <<>>,
          tbl |-> SelectSeq(tbl, LAMBDA row : row.id # id)]

Games_get_all_games(tbl) == tbl

\* ---------------------------------------------------- handlers: game cart
\* The "id" field of a request body: absent, an integer, or text that int()
\* does not parse.
IdInputs ==
    {[kind |-> "none", val |-> 0], [kind |-> "text", val |-> 0]}
    \cup {[kind |-> "int", val |-> n] : n \in {0} \cup KnownIds \cup UnknownIds}

\* `if not id: raise ValueError` and `id = int(id)`.
id_invalid(input) ==
    \/ input.kind = "none"
    \/ input.kind = "int" /\ input.val = 0
    \/ input.kind = "text"

CartResponse(op, id, status, note, body) ==
    [op |-> op, pc |-> "done", status |-> status, id |-> id, note |-> note,
     body |-> body]

\* Variant: no `info == {}` test; the lookup of info["id"] then raises KeyError.
add_game_lookup_response_no_404(exc, info) ==
    IF exc = "ValueError" THEN 400
    ELSE IF exc # "none" THEN 500
    ELSE IF info = EmptyInfo THEN 500
    ELSE 0

\* The response decided after get_game_info; 0 when the handler goes on.
add_game_lookup_response(exc, info) ==
    IF exc = "ValueError" THEN 400
    ELSE IF exc # "none" THEN 500
    ELSE IF info = EmptyInfo THEN 404
    ELSE 0

\* Variant: the except branches are lost and every call is answered 201.
add_game_response_always_201(exc) == 201

add_game_response(exc) ==
    IF exc = "none" THEN 201 ELSE IF exc = "ValueError" THEN 400 ELSE 500

\* Variant: the comparison of the message never matches.
delete_game_response_no_404(exc, msg, id) ==
    IF exc = "none" THEN 200
    ELSE IF exc = "ValueError" THEN 400
    ELSE 500

delete_game_response(exc, msg, id) ==
    IF exc = "none" THEN 200
    ELSE IF exc = "ValueError"
         THEN IF msg = NotFoundMsg(id) THEN 404 ELSE 400
    ELSE 500

\* Variant: the first game of the listing is left out of the sum.
RECURSIVE sum_prices_skip_first(_)
sum_prices_skip_first(rows) ==
    IF Len(rows) <= 1 THEN 0
    ELSE sum_prices_skip_first(SubSeq(rows, 1, Len(rows) - 1)) + rows[Len(rows)].price

\* sum([game["price"] for game in games]): from 0, left to right.
RECURSIVE sum_prices(_)
sum_prices(rows) ==
    IF rows = <<>> THEN 0
    ELSE sum_prices(SubSeq(rows, 1, Len(rows) - 1)) + rows[Len(rows)].price

add_game_recv(w) ==
    /\ Free(w)
    /\ \E input \in IdInputs :
         req' = [req EXCEPT ![w] =
                   IF id_invalid(input)
                   THEN Rejected("add_game")
                   ELSE [op |-> "add_game", id |-> input.val, pc |-> "lookup",
                         status |-> 0]]
    /\ UNCHANGED <<users, games, lastSet, everSet, deletedIds>>

add_game_lookup(w) ==
    /\ req[w].op = "add_game" /\ req[w].pc = "lookup"
    /\ \E reply \in get_game_info(req[w].id) :
         LET status == add_game_lookup_response(reply.exc, reply.info)
         IN req' = [req EXCEPT ![w] =
                      IF status # 0
                      THEN CartResponse("add_game", req[w].id, status,
                               Note("catalogFailed", reply.exc # "none")
                               \cup Note("catalogEmpty", reply.exc = "none"
                                             /\ reply.info = EmptyInfo),
                               <<>>)
                      ELSE [op |-> "add_game", id |-> req[w].id, pc |-> "store",
                            status |-> 0, info |-> reply.info]]
    /\ UNCHANGED <<users, games, lastSet, everSet, deletedIds>>

add_game_store(w) ==
    /\ req[w].op = "add_game" /\ req[w].pc = "store"
    /\ \E duplicate_exc \in DuplicateKinds :
         LET info == req[w].info
             res == Games_create_game(games, info.id, info.name, info.price,
                                      duplicate_exc)
         IN /\ games' = res.tbl
            /\ req' = [req EXCEPT ![w] =
                         CartResponse("add_game", req[w].id, add_game_response(res.exc),
                             Note("duplicate", has_game(games, info.id)),
                             <<info.name>>)]
    /\ UNCHANGED <<users, lastSet, everSet, deletedIds>>

delete_game_recv(w) ==
    /\ Free(w)
    /\ \E input \in IdInputs :
         req' = [req EXCEPT ![w] =
                   IF id_invalid(input)
                   THEN Rejected("delete_game")
                   ELSE [op |-> "delete_game", id |-> input.val, pc |-> "store",
                         status |-> 0]]
    /\ UNCHANGED <<users, games, lastSet, everSet, deletedIds>>

delete_game_call(w) ==
    /\ req[w].op = "delete_game" /\ req[w].pc = "store"
    /\ LET id == req[w].id
           res == Games_delete_game(games, id)
           status == delete_game_response(res.exc, res.msg, id)
       IN /\ games' = res.tbl
          /\ req' = [req EXCEPT ![w] =
                       CartResponse("delete_game", id, status,
                           Note("deletedBefore", id \in deletedIds), <<>>)]
          /\ deletedIds' = IF status = 200 THEN deletedIds \cup {id} ELSE deletedIds
    /\ UNCHANGED <<users, lastSet, everSet>>

get_games(w) ==
    /\ Free(w)
    /\ req' = [req EXCEPT ![w] =
                 CartResponse("get_games", 0, 200, {}, Games_get_all_games(games))]
    /\ UNCHANGED <<users, games, lastSet, everSet, deletedIds>>

get_total_price(w) ==
    /\ Free(w)
    /\ req' = [req EXCEPT ![w] =
                 CartResponse("get_total_price", 0, 200,
                     Note("afterDelete", deletedIds # {}),
                     <<sum_prices(Games_get_all_games(games))>>)]
    /\ UNCHANGED <<users, games, lastSet, everSet, deletedIds>>

\* ------------------------------------------------------------ specifications
Init ==
    /\ users = {}
    /\ games = <<>>
    /\ req = [w \in Workers |-> Idle]
    /\ lastSet = [u \in Usernames |-> Missing]
    /\ everSet = [u \in Usernames |-> {}]
    /\ deletedIds = {}

NextAccount ==
    \E w \in Workers :
        \/ create_user_recv(w)
        \/ create_user_call(w)
        \/ login_recv(w)
        \/ login_call(w)
        \/ update_password_recv(w)
        \/ update_password_call(w)

SpecAccount == Init /\ [][NextAccount]_vars

NextCart ==
    \E w \in Workers :
        \/ add_game_recv(w)
        \/ add_game_lookup(w)
        \/ add_game_store(w)
        \/ delete_game_recv(w)
        \/ delete_game_call(w)
        \/ get_games(w)
        \/ get_total_price(w)

SpecCart == Init /\ [][NextCart]_vars

\* ------------------------------------------------------------------- steps
\* The step in which worker w's handler makes its store call and answers.
LoginStep(w) ==
    req[w].op = "login" /\ req[w].pc = "check" /\ req'[w].pc = "done"

CreateUserStep(w) ==
    req[w].op = "create_user" /\ req[w].pc = "store" /\ req'[w].pc = "done"

UpdatePasswordStep(w) ==
    req[w].op = "update_password" /\ req[w].pc = "store" /\ req'[w].pc = "done"

AddGameLookupStep(w) ==
    req[w].op = "add_game" /\ req[w].pc = "lookup" /\ req'[w].pc # "lookup"

AddGameStoreStep(w) ==
    req[w].op = "add_game" /\ req[w].pc = "store" /\ req'[w].pc = "done"

DeleteGameStep(w) ==
    req[w].op = "delete_game" /\ req[w].pc = "store" /\ req'[w].pc = "done"

GetGamesStep(w) ==
    req'[w] # req[w] /\ req'[w].op = "get_games"

GetTotalPriceStep(w) ==
    req'[w] # req[w] /\ req'[w].op = "get_total_price"

Answered(w, op) ==
    req[w].op = op /\ req[w].pc = "done" /\ "rejected" \notin req[w].note

RowsOf(tbl, username) == {row \in tbl : row.username = username}

Entries(listing, id) == {i \in 1 .. Len(listing) : listing[i].id = id}

\* The sum of the prices of a set of row positions, in no particular order.
RECURSIVE TotalOver(_, _)
TotalOver(tbl, positions) ==
    IF positions = {} THEN 0
    ELSE LET i == CHOOSE j \in positions : \A k \in positions : j >= k
         IN tbl[i].price + TotalOver(tbl, positions \ {i})

\* ------------------------------------------------------------------ claims

\* C1: a login for an existing username u with password p is answered 200
\* exactly when p is the password of the latest create-account or
\* update-password answered 201 for u, and 401 for every other password,
\* a password an earlier 201 had set included.
C1_LoginAcceptsLatestPasswordOnly ==
    [][\A w \in Workers :
         (LoginStep(w) /\ Exists(req[w].username))
         => req'[w].status =
              IF req[w].password = lastSet[req[w].username] THEN 200 ELSE 401]_vars

C1_Witness_StalePasswordRejected ==
    \E w \in Workers :
        /\ Answered(w, "login")
        /\ req[w].status = 401
        /\ "stale" \in req[w].note

\* C2: a login carrying username and password is answered 401 when the
\* username does not exist, as it is when the password is wrong.
C2_UnknownUserLoginIs401 ==
    \A w \in Workers :
        (Answered(w, "login") /\ "known" \notin req[w].note)
        => req[w].status = 401

\* C3: a create-account for a username that already exists is not answered
\* 201 and modifies no user row: the users are unchanged, the user's password
\* still logs in with 200 and the password of the failed request does not.
C3_DuplicateCreateChangesNothing ==
    [][\A w \in Workers :
         (CreateUserStep(w) /\ Exists(req[w].username))
         => LET u == req[w].username IN
            /\ req'[w].status # 201
            /\ users' = users
            /\ LoginOutcome(users', u, lastSet[u]) = 200
            /\ req[w].password # lastSet[u]
               => LoginOutcome(users', u, req[w].password) = 401]_vars

C3_Witness_DuplicateCreateRefused ==
    \E w \in Workers :
        /\ Answered(w, "create_user")
        /\ req[w].status = 500
        /\ "otherPassword" \in req[w].note

\* C7: an update-password with a non-empty username that does not exist and a
\* non-empty new password is answered 401, creates no user and changes no
\* existing user's credential.
C7_UpdateUnknownUserIs401 ==
    [][\A w \in Workers :
         (UpdatePasswordStep(w) /\ ~Exists(req[w].username))
         => /\ req'[w].status = 401
            /\ RowsOf(users', req[w].username) = {}
            /\ Cardinality(users') = Cardinality(users)
            /\ \A u \in Usernames, p \in Passwords :
                 Exists(u) => LoginOutcome(users', u, p) = LoginOutcome(users, u, p)]_vars

C7_Witness_UnknownUserRefused ==
    \E w \in Workers :
        /\ Answered(w, "update_password")
        /\ req[w].status = 401
        /\ "known" \notin req[w].note
        /\ \E u \in Usernames : Exists(u)

\* C8: of two create-account requests for the same, not yet existing username
\* handled concurrently at most one is answered 201, and the username then has
\* exactly one row, holding the credential of the request answered 201.
C8_ConcurrentCreateOneWinner ==
    /\ [](\A w1, w2 \in Workers :
            (w1 # w2 /\ Answered(w1, "create_user") /\ Answered(w2, "create_user")
                /\ req[w1].username = req[w2].username)
            => ~(req[w1].status = 201 /\ req[w2].status = 201))
    /\ [](\A u \in Usernames : Cardinality(RowsOf(users, u)) <= 1)
    /\ [][\A w \in Workers :
            (CreateUserStep(w) /\ req'[w].status = 201)
            => /\ ~Exists(req[w].username)
               /\ Cardinality(RowsOf(users', req[w].username)) = 1
               /\ LoginOutcome(users', req[w].username, req[w].password) = 200]_vars

C8_Witness_RaceLost ==
    \E w1, w2 \in Workers :
        /\ w1 # w2
        /\ Answered(w1, "create_user") /\ Answered(w2, "create_user")
        /\ req[w1].username = req[w2].username
        /\ req[w1].status = 201
        /\ req[w2].status = 500
        /\ "raced" \in req[w2].note

\* C10: while update-password(u, p2) runs beside logins for u, in every state
\* the stored salt and hash belong together and log in exactly the password
\* of the latest 201 (the old one or the new one, never neither), and a login
\* that arrived while p1 was valid is answered 401 once the update to another
\* password has been answered 201.
C10_UpdateIsAtomicForLogin ==
    /\ [](\A u \in Usernames :
            Exists(u) =>
              /\ \A row \in RowsOf(users, u) :
                   \E p \in Passwords : verify_password(p, row.salt, row.hashed_password)
              /\ \A p \in Passwords \cup {""} :
                   (LoginOutcome(users, u, p) = 200) <=> (p = lastSet[u]))
    /\ [][\A w \in Workers :
            (LoginStep(w) /\ req[w].validAtRecv
                /\ req[w].password # lastSet[req[w].username])
            => req'[w].status = 401]_vars

C10_Witness_LoginOvertakenByUpdate ==
    \E w \in Workers :
        /\ Answered(w, "login")
        /\ req[w].status = 401
        /\ "validAtRecv" \in req[w].note

\* C4: for a catalog id not in the cart, add-game is answered 201 and get-games
\* then lists exactly one entry with that id, name and price; delete-game is
\* then answered 200 and get-games no longer lists the id; a second
\* delete-game is answered 404 and leaves the cart unchanged.
C4_AddListDeleteDelete ==
    [][\A w \in Workers :
         /\ (AddGameStoreStep(w) /\ ~has_game(games, req[w].info.id))
            => LET info == req[w].info
                   listing == Games_get_all_games(games')
               IN /\ req'[w].status = 201
                  /\ Cardinality(Entries(listing, info.id)) = 1
                  /\ \A i \in Entries(listing, info.id) :
                       listing[i] = [id |-> req[w].id, name |-> info.name,
                                     price |-> info.price]
         /\ GetGamesStep(w)
            => req'[w].status = 200 /\ req'[w].body = games
         /\ (DeleteGameStep(w) /\ has_game(games, req[w].id))
            => /\ req'[w].status = 200
               /\ Entries(Games_get_all_games(games'), req[w].id) = {}
               /\ Len(games') = Len(games) - 1
         /\ (DeleteGameStep(w) /\ ~has_game(games, req[w].id))
            => req'[w].status = 404 /\ games' = games]_vars

C4_Witness_SecondDelete404 ==
    \E w \in Workers :
        /\ Answered(w, "delete_game")
        /\ req[w].status = 404
        /\ req[w].id \in KnownIds
        /\ "deletedBefore" \in req[w].note

C6_UnknownIdIs404CatalogFailureIs500 ==
    [][\A w \in Workers :
         AddGameLookupStep(w)
         => /\ games' = games
            /\ req[w].id \notin KnownIds
               => req'[w].pc = "done" /\ req'[w].status \in {404, 500}
            /\ req'[w].pc = "done"
               => /\ "catalogEmpty" \in req'[w].note <=> req'[w].status = 404
                  /\ "catalogFailed" \in req'[w].note <=> req'[w].status = 500]_vars

C6_Witness_Both404And500 ==
    \E w1, w2 \in Workers :
        /\ Answered(w1, "add_game") /\ Answered(w2, "add_game")
        /\ req[w1].status = 404 /\ "catalogEmpty" \in req[w1].note
        /\ req[w1].id \in UnknownIds
        /\ req[w2].status = 500 /\ "catalogFailed" \in req[w2].note
        /\ games = <<>>

\* C9: the cart holds at most one row per id in every state, and an add-game
\* for an id already in the cart is not answered 201 and adds no row.
C9_OneRowPerId ==
    /\ [](\A i, j \in 1 .. Len(games) : games[i].id = games[j].id => i = j)
    /\ [][\A w \in Workers :
            (AddGameStoreStep(w) /\ has_game(games, req[w].info.id))
            => req'[w].status # 201 /\ games' = games]_vars

C9_Witness_RepeatedAddRefused ==
    \E w \in Workers :
        /\ Answered(w, "add_game")
        /\ req[w].status \in {400, 500}
        /\ "duplicate" \in req[w].note
        /\ has_game(games, req[w].id)

====
